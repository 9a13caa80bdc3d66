-------------------------- MODULE LifecycleProofs --------------------------
(***************************************************************************)
(* Proofs about Lifecycle, for any number of sinks and every choice of     *)
(* drivers and faults.  The inductive invariant says, for every position   *)
(* of newService and of the shutdown, what is held and what has ended.     *)
(***************************************************************************)
EXTENDS Lifecycle, TLAPS

\* The process serves, or its shutdown has not completed step i.
Until(i) == main \in {"await", "serving"} \/ (main = "shutdown" /\ at <= i)

\* The shutdown has completed step i, or there is nothing left to shut down.
Past(i) == main = "exited" \/ (main = "shutdown" /\ at > i)

Stopped(t) == task[t] \in {"off", "done"}

Allowed == driver = "memory" => mode = "degrade"

\* What newService holds before its step number at.
BuiltSoFar ==
    main = "build" =>
        /\ ("store" \in built => at > 1) /\ ("server" \in built => at > 2)
        /\ ("conn" \in built <=> at > 3)
        /\ (at > 5 => Allowed)
        /\ (at < 6 => open = {}) /\ (at > 6 => open = Sinks)
        /\ (at < 7 => consumers = {}) /\ (at > 7 => consumers = Sinks)
        /\ task = [t \in Tasks |-> "off"]
        /\ subscribed = {} /\ closer = "off"

\* What the shutdown has not reached yet is still held.
HeldUntilClosed ==
    /\ Until(1) => consumers = Sinks /\ closer = "off" /\ Allowed
    /\ Until(7) => open = Sinks
    /\ Until(8) => "conn" \in built

\* What the shutdown has passed has ended and is given back.
EndedWhenPast ==
    /\ Past(1) => Stopped("receiver") /\ "webhook" \notin built
    /\ Past(2) => consumers = {} /\ Drained
    /\ Past(3) => Stopped("router")
    /\ Past(4) => Stopped("recovery")
    /\ Past(5) => Stopped("lag")
    /\ Past(6) => Stopped("health")
    /\ Past(7) => open = {}
    /\ Past(8) => built \intersect Bus = {}
    /\ Past(9) => Stopped("admin") /\ "admin" \notin built

\* What the goroutines hold while they are at it.
TasksConsistent ==
    /\ running => subscribed = Sinks
    /\ task["receiver"] # "off" => main # "await" /\ subscribed = Sinks
    /\ polling => task["lag"] = "running" /\ driver # "memory"
    /\ "webhook" \in built => task["receiver"] \in {"off", "running"}
    /\ "admin" \in built => task["admin"] \in {"off", "running"}

Reported ==
    /\ outcome # None => main = "exited"
    /\ NoFailureHidden

LifecycleInv ==
    /\ LifecycleTypeOK
    /\ main \in {"await", "serving"} => at = 11
    /\ main = "shutdown" => at <= 10
    /\ BuiltSoFar
    /\ HeldUntilClosed
    /\ EndedWhenPast
    /\ TasksConsistent
    /\ Reported

-----------------------------------------------------------------------------
\* Where newService and the shutdown are when they do a step.
LEMMA BuildOrder ==
  ASSUME NEW i \in 1..10
  PROVE  /\ (Build[i] = "store" <=> i = 1) /\ (Build[i] = "server" <=> i = 2)
         /\ (Build[i] = "conn" <=> i = 3) /\ (Build[i] = "stream" <=> i = 4)
         /\ (Build[i] = "policy" <=> i = 5) /\ (Build[i] = "sinks" <=> i = 6)
         /\ (Build[i] = "consumers" <=> i = 7) /\ (Build[i] = "recovery" <=> i = 8)
         /\ (Build[i] = "admin" <=> i = 9) /\ (Build[i] = "webhook" <=> i = 10)
<1>1. i \in {1, 2, 3, 4, 5, 6, 7, 8, 9, 10}
  OBVIOUS
<1> QED BY <1>1 DEF Build

LEMMA BuildingAt ==
  ASSUME LifecycleTypeOK, NEW step, Building(step)
  PROVE  /\ main = "build" /\ at \in 1..10 /\ step = Build[at]
BY DEF Building, Build, LifecycleTypeOK

LEMMA ShutdownOrder ==
  ASSUME NEW i \in 1..9
  PROVE  /\ (Shutdown[i] = <<"stop", "receiver">> <=> i = 1)
         /\ (Shutdown[i] = <<"close", "router">> <=> i = 2)
         /\ (Shutdown[i] = <<"stop", "router">> <=> i = 3)
         /\ (Shutdown[i] = <<"stop", "recovery">> <=> i = 4)
         /\ (Shutdown[i] = <<"stop", "lag">> <=> i = 5)
         /\ (Shutdown[i] = <<"stop", "health">> <=> i = 6)
         /\ (Shutdown[i] = <<"close", "sinks">> <=> i = 7)
         /\ (Shutdown[i] = <<"close", "bus">> <=> i = 8)
         /\ (Shutdown[i] = <<"stop", "admin">> <=> i = 9)
<1>1. i \in {1, 2, 3, 4, 5, 6, 7, 8, 9}
  OBVIOUS
<1> QED BY <1>1 DEF Shutdown

LEMMA DoingAt ==
  ASSUME LifecycleTypeOK, NEW step, NEW x, Doing(step, x)
  PROVE  /\ main = "shutdown" /\ at \in 1..9 /\ Shutdown[at] = <<step, x>>
BY DEF Doing, Shutdown, LifecycleTypeOK

\* Only the sockets of servers are given back with a task.
LEMMA SocketsOf ==
  /\ SocketOf("receiver") = {"webhook"} /\ SocketOf("admin") = {"admin"}
  /\ \A t \in Tasks : SocketOf(t) \subseteq Sockets /\ (t \notin Servers => SocketOf(t) = {})
BY DEF SocketOf, Tasks, Servers, Sockets

\* Once the process has exited no task is at work.
LEMMA ExitedIsQuiet ==
  ASSUME LifecycleInv, main = "exited" PROVE \A t \in Tasks : Stopped(t)
BY DEF LifecycleInv, EndedWhenPast, Past, Tasks

\* Whichever step of newService fails, closeBuilt and the step itself give
\* back everything held so far.
LEMMA AbortReleases ==
  ASSUME LifecycleInv, Refuse \/ BuildFails
  PROVE  main = "build" /\ built' = {} /\ open' = {} /\ consumers' = {}
<1> USE DEF LifecycleInv
<1>1. main = "build" /\ at \in 1..10 /\ Abort
  BY BuildingAt DEF Refuse, BuildFails
<1>2. \A step : Building(step) <=> step = Build[at]
  BY <1>1 DEF Building, Build
<1>3. /\ Has("stream") <=> at > 4
      /\ Has("sinks") <=> at > 6
      /\ Has("consumers") <=> at > 7
  BY <1>1, BuildOrder DEF Has
<1>4. open' = {} /\ consumers' = {}
  BY <1>1, <1>2, <1>3, BuildOrder DEF Abort, BuiltSoFar
<1>5. built \subseteq StepReleases \union CloseBuilt
  <2>1. built \subseteq {"store", "server", "conn", "admin", "webhook"}
    BY DEF LifecycleTypeOK, Bus, Sockets
  <2>2. CASE at > 4
    BY <1>3, <2>1, <2>2 DEF CloseBuilt, Bus, Sockets
  <2>3. CASE at = 4
    BY <1>2, <2>1, <2>3, BuildOrder DEF StepReleases, CloseBuilt, Bus, Sockets
  <2>4. CASE at = 3
    BY <1>1, <1>2, <2>1, <2>4, BuildOrder DEF StepReleases, CloseBuilt, BuiltSoFar, Sockets
  <2>5. CASE at = 2
    BY <1>1, <1>2, <2>1, <2>5, BuildOrder DEF StepReleases, CloseBuilt, BuiltSoFar, Sockets
  <2>6. CASE at = 1
    BY <1>1, <1>2, <2>1, <2>6, BuildOrder DEF StepReleases, CloseBuilt, BuiltSoFar, Sockets
  <2> QED BY <1>1, <2>2, <2>3, <2>4, <2>5, <2>6
<1> QED BY <1>1, <1>4, <1>5 DEF Abort

-----------------------------------------------------------------------------
(* Types.                                                                  *)

\* newService keeps its state well-typed.
LEMMA BuildType ==
  ASSUME LifecycleInv, NEW step, NEW R \in SUBSET (Bus \union Sockets), Hold(step, R)
  PROVE  LifecycleTypeOK'
<1>1. at' \in 1..(Len(Build) + 1)
  BY DEF Hold, Building, Advance, LifecycleInv, LifecycleTypeOK, Build
<1> QED BY <1>1 DEF Hold, Advance, LifecycleInv, LifecycleTypeOK, config, taskVars, routerVars

\* Every step keeps the state well-typed.
LEMMA NextType == LifecycleInv /\ [Next]_vars => LifecycleTypeOK'
<1> SUFFICES ASSUME LifecycleInv, [Next]_vars PROVE LifecycleTypeOK'
  OBVIOUS
<1> USE DEF LifecycleInv, config, held, mainVars, taskVars, routerVars
<1>1. CASE ReserveStore \/ StartServer \/ Connect \/ EnsureStream \/ ResolveIngress
           \/ BuildRecovery \/ ListenAdmin \/ ListenWebhook
  BY <1>1, BuildType DEF ReserveStore, StartServer, Connect, EnsureStream, ResolveIngress,
     BuildRecovery, ListenAdmin, ListenWebhook, Bus, Sockets
<1>2. ASSUME NEW s \in Sinks, BuildSink(s) \/ Bind(s) PROVE LifecycleTypeOK'
  <2>1. at' \in 1..(Len(Build) + 1)
    BY <1>2 DEF BuildSink, Bind, Building, LifecycleTypeOK, Build
  <2>2. open' \subseteq Sinks /\ consumers' \subseteq open'
    <3>1. CASE BuildSink(s)
      BY <3>1 DEF BuildSink, LifecycleTypeOK
    <3>2. CASE Bind(s)
      <4>1. open = Sinks
        BY <3>2, BuildingAt, BuildOrder DEF Bind, BuiltSoFar
      <4> QED BY <3>2, <4>1 DEF Bind, LifecycleTypeOK
    <3> QED BY <1>2, <3>1, <3>2
  <2> QED BY <1>2, <2>1, <2>2 DEF BuildSink, Bind, LifecycleTypeOK
<1>3. CASE Refuse \/ BuildFails
  <2>1. built' = {} /\ consumers' = {} /\ open' = {}
    BY <1>3, AbortReleases
  <2> QED BY <1>3, <2>1 DEF Refuse, BuildFails, Abort, LifecycleTypeOK
<1>4. CASE StartTasks
  BY <1>4 DEF StartTasks, LifecycleTypeOK
<1>5. CASE AwaitRunning
  BY <1>5 DEF AwaitRunning, LifecycleTypeOK, Tasks
<1>6. CASE BeginShutdown /\ (UNCHANGED <<cause, failures>> \/ SeeFailure)
  <2>1. 1 \in 1..(Len(Build) + 1)
    BY DEF Build
  <2>2. cause' \in Tasks \union {None} /\ failures' \in Seq(Tasks) /\ Len(failures') <= Room
    BY <1>6 DEF SeeFailure, LifecycleTypeOK, Room
  <2> QED BY <1>6, <2>1, <2>2 DEF BeginShutdown, LifecycleTypeOK
<1>7. ASSUME NEW x, NEW y, Doing(x, y), Done, UNCHANGED <<taskVars, signal, routerVars, polling>>,
             built' \subseteq built, open' \in {open, {}}, UNCHANGED consumers, consumers = {} \/ open' = open,
             stopErr' \in BOOLEAN
      PROVE  LifecycleTypeOK'
  <2>1. at' \in 1..(Len(Build) + 1)
    BY <1>7, DoingAt DEF Done, Build
  <2> QED BY <1>7, <2>1 DEF Done, LifecycleTypeOK
<1>8. ASSUME NEW t \in Tasks, StopNothing(t) \/ StopCancels(t) \/ StopWaits(t)
      PROVE  LifecycleTypeOK'
  <2>1. stopErr \in BOOLEAN
    BY DEF LifecycleTypeOK
  <2>2. CASE StopCancels(t)
    BY <2>2 DEF StopCancels, LifecycleTypeOK
  <2> QED BY <1>7, <1>8, <2>1, <2>2 DEF StopNothing, StopWaits
<1>9. CASE RouterCloseBegins
  BY <1>9 DEF RouterCloseBegins, LifecycleTypeOK
<1>10. CASE HandlersClosed
  BY <1>10 DEF HandlersClosed, LifecycleTypeOK
<1>11. CASE RouterCloseEnds \/ CloseSinks \/ CloseBus
  <2>1. /\ stopErr \in BOOLEAN /\ (stopErr \/ Faulty) \in BOOLEAN
    BY DEF LifecycleTypeOK
  <2>2. CloseSinks => consumers = {}
    BY DoingAt, ShutdownOrder DEF CloseSinks, EndedWhenPast, Past
  <2> QED BY <1>7, <1>11, <2>1, <2>2 DEF RouterCloseEnds, CloseSinks, CloseBus
<1>12. ASSUME NEW s \in Sinks, CloseSubscriber(s) PROVE LifecycleTypeOK'
  BY <1>12 DEF CloseSubscriber, LifecycleTypeOK
<1>13. CASE Return
  BY <1>13 DEF Return, LifecycleTypeOK, None
<1>14. ASSUME NEW t \in Tasks, ServeFails(t) \/ TaskStops(t) \/ TaskFinishes(t)
       PROVE  LifecycleTypeOK'
  BY <1>14 DEF ServeFails, TaskStops, TaskFinishes, Fails, Ends, LifecycleTypeOK
<1>15. ASSUME NEW t \in Tasks, Report(t) PROVE LifecycleTypeOK'
  BY <1>15 DEF Report, LifecycleTypeOK, Room
<1>16. CASE PollBegins \/ PollEnds \/ Signal \/ RouterRuns
  BY <1>16 DEF PollBegins, PollEnds, Signal, RouterRuns, LifecycleTypeOK
<1>17. ASSUME NEW s \in Sinks, RouterSubscribes(s) PROVE LifecycleTypeOK'
  BY <1>17 DEF RouterSubscribes, Fails, LifecycleTypeOK, Tasks
<1>18. CASE RouterReturns
  BY <1>18 DEF RouterReturns, Ends, LifecycleTypeOK, Tasks
<1>19. ASSUME NEW s \in Sinks, ProcessBegins(s) \/ ProcessEnds(s) PROVE LifecycleTypeOK'
  BY <1>19 DEF ProcessBegins, ProcessEnds, LifecycleTypeOK
<1>20. CASE UNCHANGED vars
  BY <1>20 DEF vars, LifecycleTypeOK
<1> QED BY <1>1, <1>2, <1>3, <1>4, <1>5, <1>6, <1>8, <1>9, <1>10, <1>11, <1>12, <1>13, <1>14,
           <1>15, <1>16, <1>17, <1>18, <1>19, <1>20
        DEF Next, Main, SeeSignal, SeeFailure, Servers, Tasks

-----------------------------------------------------------------------------
(* The invariant.                                                          *)

\* A step of the router's handlers, the poller or the environment: nothing is
\* acquired or given back and no task starts or ends.
LEMMA HandlersKeep ==
  ASSUME LifecycleInv, LifecycleTypeOK',
         UNCHANGED <<config, main, at, outcome, held, task, err>>,
         subscribed \subseteq subscribed', running' => subscribed' = Sinks,
         polling' => task["lag"] = "running" /\ driver # "memory",
         main = "build" => UNCHANGED <<subscribed, closer>>,
         Until(1) => closer' = closer,
         Past(2) => busy' \subseteq busy
  PROVE  LifecycleInv'
<1> USE DEF LifecycleInv, config, held
<1>1. BuiltSoFar' /\ HeldUntilClosed'
  BY DEF BuiltSoFar, HeldUntilClosed, Until, Allowed
<1>2. EndedWhenPast'
  BY DEF EndedWhenPast, Past, Stopped, Drained
<1>3. TasksConsistent' /\ Reported'
  BY DEF TasksConsistent, Reported, NoFailureHidden, LifecycleTypeOK
<1> QED BY <1>1, <1>2, <1>3

\* A step with which task t ends, or fails and reports: its socket goes with it.
LEMMA TaskKeeps ==
  ASSUME LifecycleInv, LifecycleTypeOK',
         NEW t \in Tasks, task[t] \in {"running", "reporting"},
         NEW v \in {"reporting", "done"}, task' = [task EXCEPT ![t] = v],
         built' = built \ SocketOf(t), t = "lag" => ~polling,
         UNCHANGED <<config, main, at, outcome, open, consumers, routerVars, polling>>
  PROVE  LifecycleInv'
<1> USE DEF LifecycleInv, config, routerVars
<1>1. /\ main # "build" /\ main # "exited"
      /\ \A u \in Tasks : task'[u] = IF u = t THEN v ELSE task[u]
  BY ExitedIsQuiet DEF LifecycleTypeOK, BuiltSoFar, Stopped
<1>2. HeldUntilClosed'
  BY SocketsOf DEF HeldUntilClosed, Until, Allowed, Sockets
<1>3. EndedWhenPast'
  BY <1>1 DEF EndedWhenPast, Past, Stopped, Drained, Tasks
<1>4. TasksConsistent'
  BY <1>1, SocketsOf DEF TasksConsistent, Tasks
<1>5. BuiltSoFar' /\ Reported'
  BY <1>1 DEF BuiltSoFar, Reported, NoFailureHidden, None
<1> QED BY <1>2, <1>3, <1>4, <1>5

\* A step of newService that succeeds.
LEMMA BuildKeeps ==
  ASSUME LifecycleInv, LifecycleTypeOK', main = "build", main' = "build", BuiltSoFar',
         UNCHANGED <<config, outcome, taskVars, routerVars, polling>>
  PROVE  LifecycleInv'
<1> USE DEF LifecycleInv, config, taskVars, routerVars
<1>1. HeldUntilClosed' /\ EndedWhenPast'
  BY DEF HeldUntilClosed, EndedWhenPast, Until, Past
<1>2. TasksConsistent'
  BY DEF TasksConsistent, BuiltSoFar, Tasks
<1>3. Reported'
  BY DEF Reported, NoFailureHidden
<1> QED BY <1>1, <1>2, <1>3

\* A step of newService that holds R.
LEMMA HoldKeeps ==
  ASSUME LifecycleInv, LifecycleTypeOK', NEW step, NEW R, Hold(step, R), at \notin {6, 7},
         "store" \in R => at >= 1, "server" \in R => at >= 2, "conn" \in R <=> at = 3,
         at = 5 => Allowed
  PROVE  LifecycleInv'
<1> USE DEF LifecycleInv
<1>1. main = "build" /\ at \in 1..10
  BY BuildingAt DEF Hold
<1>2. BuiltSoFar'
  BY <1>1 DEF Hold, Advance, BuiltSoFar, Allowed, config, taskVars, routerVars
<1> QED BY <1>1, <1>2, BuildKeeps DEF Hold, Advance

\* A step of the shutdown that has finished step at.
LEMMA DoneKeeps ==
  ASSUME LifecycleInv, LifecycleTypeOK', NEW x, NEW y, Doing(x, y), Done,
         UNCHANGED <<taskVars, routerVars, polling, consumers>>,
         built' \subseteq built, at # 8 => ("conn" \in built => "conn" \in built'),
         at # 7 => open' = open,
         at = 1 => Stopped("receiver") /\ "webhook" \notin built',
         at = 2 => consumers = {} /\ Drained,
         at = 3 => Stopped("router"),
         at = 4 => Stopped("recovery"),
         at = 5 => Stopped("lag"),
         at = 6 => Stopped("health"),
         at = 7 => open' = {},
         at = 8 => built' \intersect Bus = {},
         at = 9 => Stopped("admin") /\ "admin" \notin built'
  PROVE  LifecycleInv'
<1> USE DEF LifecycleInv, Done, config, taskVars, routerVars
<1>1. main = "shutdown" /\ main' = "shutdown" /\ at \in 1..9 /\ at' = at + 1
  BY DoingAt
<1>2. BuiltSoFar'
  BY <1>1 DEF BuiltSoFar
<1>3. HeldUntilClosed'
  BY <1>1 DEF HeldUntilClosed, Until, Allowed
<1>4. EndedWhenPast'
  BY <1>1 DEF EndedWhenPast, Past, Stopped, Drained
<1>5. TasksConsistent'
  BY <1>1 DEF TasksConsistent
<1>6. Reported'
  BY <1>1 DEF Reported, NoFailureHidden
<1> QED BY <1>1, <1>2, <1>3, <1>4, <1>5, <1>6

\* newService fails: nothing is held, no task was started.
LEMMA AbortKeeps == ASSUME LifecycleInv, LifecycleTypeOK', Refuse \/ BuildFails PROVE LifecycleInv'
<1> USE DEF LifecycleInv, config, taskVars, routerVars
<1>1. main = "build" /\ main' = "exited" /\ outcome' = "error" /\ UNCHANGED <<taskVars, routerVars, polling>>
  BY AbortReleases DEF Refuse, BuildFails, Abort
<1>2. built' = {} /\ open' = {} /\ consumers' = {}
  BY AbortReleases
<1>3. (\A t \in Tasks : task'[t] = "off") /\ busy' = {} /\ subscribed' = {} /\ closer' = "off"
  BY <1>1 DEF BuiltSoFar, LifecycleTypeOK
<1>4. BuiltSoFar' /\ HeldUntilClosed'
  BY <1>1 DEF BuiltSoFar, HeldUntilClosed, Until
<1>5. EndedWhenPast'
  BY <1>2, <1>3 DEF EndedWhenPast, Stopped, Drained, Tasks
<1>6. TasksConsistent'
  BY <1>1, <1>2, <1>3 DEF TasksConsistent, BuiltSoFar, Tasks
<1>7. Reported'
  BY <1>1 DEF Reported, NoFailureHidden
<1> QED BY <1>1, <1>4, <1>5, <1>6, <1>7

\* The steps of newService keep the invariant.
LEMMA NewServiceKeeps ==
  ASSUME LifecycleInv, LifecycleTypeOK', main = "build", Main PROVE LifecycleInv'
<1> USE DEF LifecycleInv
<1>1. ASSUME NEW step, Building(step) PROVE at \in 1..10 /\ step = Build[at] /\ main = "build"
  BY <1>1, BuildingAt
<1>2. CASE ReserveStore
  <2>1. at = 1 /\ Hold("store", IF driver = "embedded" THEN {"store"} ELSE {})
    BY <1>1, <1>2, BuildOrder DEF ReserveStore, Hold
  <2> QED BY <2>1, HoldKeeps
<1>3. CASE StartServer
  <2>1. at = 2 /\ Hold("server", IF driver = "embedded" THEN {"server"} ELSE {})
    BY <1>1, <1>3, BuildOrder DEF StartServer, Hold
  <2> QED BY <2>1, HoldKeeps
<1>4. CASE Connect
  <2>1. at = 3 /\ Hold("conn", {"conn"})
    BY <1>1, <1>4, BuildOrder DEF Connect, Hold
  <2> QED BY <2>1, HoldKeeps
<1>5. CASE EnsureStream
  <2>1. at = 4 /\ Hold("stream", {})
    BY <1>1, <1>5, BuildOrder DEF EnsureStream, Hold
  <2> QED BY <2>1, HoldKeeps
<1>6. CASE ResolveIngress
  <2>1. at = 5 /\ Hold("policy", {})
    BY <1>1, <1>6, BuildOrder DEF ResolveIngress, Hold
  <2>2. Allowed
    BY <1>6 DEF ResolveIngress, Refused, Allowed, LifecycleTypeOK
  <2> QED BY <2>1, <2>2, HoldKeeps
<1>7. CASE Refuse
  BY <1>7, AbortKeeps
<1>8. ASSUME NEW s \in Sinks, BuildSink(s) PROVE LifecycleInv'
  <2>1. at = 6
    BY <1>1, <1>8, BuildOrder DEF BuildSink
  <2>2. BuiltSoFar'
    BY <1>8, <2>1 DEF BuildSink, BuiltSoFar, Allowed, config, taskVars, routerVars
  <2> QED BY <1>8, <2>1, <2>2, BuildKeeps DEF BuildSink
<1>9. ASSUME NEW s \in Sinks, Bind(s) PROVE LifecycleInv'
  <2>1. at = 7
    BY <1>1, <1>9, BuildOrder DEF Bind
  <2>2. BuiltSoFar'
    BY <1>9, <2>1 DEF Bind, BuiltSoFar, Allowed, config, taskVars, routerVars
  <2> QED BY <1>9, <2>1, <2>2, BuildKeeps DEF Bind
<1>10. CASE BuildRecovery
  <2>1. at = 8 /\ Hold("recovery", {})
    BY <1>1, <1>10, BuildOrder DEF BuildRecovery, Hold
  <2> QED BY <2>1, HoldKeeps
<1>11. CASE ListenAdmin
  <2>1. at = 9 /\ Hold("admin", {"admin"})
    BY <1>1, <1>11, BuildOrder DEF ListenAdmin, Hold
  <2> QED BY <2>1, HoldKeeps
<1>12. CASE ListenWebhook
  <2>1. at = 10 /\ Hold("webhook", {"webhook"})
    BY <1>1, <1>12, BuildOrder DEF ListenWebhook, Hold
  <2> QED BY <2>1, HoldKeeps
<1>13. CASE StartTasks
  <2>1. at = 11 /\ main' = "await" /\ at' = 11
    BY <1>13 DEF StartTasks, Build, LifecycleTypeOK
  <2>2. UNCHANGED <<config, outcome, held, routerVars, polling, err>>
    BY <1>13 DEF StartTasks
  <2>3. BuiltSoFar' /\ HeldUntilClosed' /\ EndedWhenPast'
    BY <2>1, <2>2 DEF BuiltSoFar, HeldUntilClosed, EndedWhenPast, Until, Past, Allowed, config, held, routerVars
  <2>4. TasksConsistent'
    BY <1>13, <2>1, <2>2 DEF StartTasks, TasksConsistent, BuiltSoFar, LifecycleTypeOK, config, held, routerVars, Tasks
  <2>5. Reported'
    BY <2>1, <2>2 DEF Reported, NoFailureHidden
  <2> QED BY <2>1, <2>3, <2>4, <2>5
<1>14. closer = "off"
  BY DEF BuiltSoFar
<1> QED BY <1>2, <1>3, <1>4, <1>5, <1>6, <1>7, <1>8, <1>9, <1>10, <1>11, <1>12, <1>13, <1>14
        DEF Main, AwaitRunning, SeeSignal, SeeFailure, BeginShutdown, StopNothing, StopCancels, StopWaits,
            Doing, RouterCloseBegins, HandlersClosed, RouterCloseEnds, CloseSubscriber, CloseSinks,
            CloseBus, Return

\* task.stop, for the task of every step of the shutdown.
LEMMA StopKeeps ==
  ASSUME LifecycleInv, LifecycleTypeOK', NEW t \in Tasks,
         StopNothing(t) \/ StopCancels(t) \/ StopWaits(t)
  PROVE  LifecycleInv'
<1> USE DEF LifecycleInv
<1>1. main = "shutdown" /\ at \in 1..9 /\ Shutdown[at] = <<"stop", t>> /\ Doing("stop", t)
  BY DoingAt DEF StopNothing, StopCancels, StopWaits
<1>2. CASE StopCancels(t)
  BY <1>1, <1>2, HandlersKeep
  DEF StopCancels, config, mainVars, held, routerVars, TasksConsistent, LifecycleTypeOK
<1>3. CASE StopNothing(t) \/ StopWaits(t)
  <2>1. Done /\ Stopped(t) /\ UNCHANGED <<taskVars, routerVars, polling, consumers, open>>
    BY <1>3 DEF StopNothing, StopWaits, Stopped, held
  <2>2. /\ built' \subseteq built /\ ("conn" \in built => "conn" \in built')
        /\ t = "receiver" => "webhook" \notin built'
        /\ t = "admin" => "admin" \notin built'
    BY <1>3, SocketsOf DEF StopNothing, StopWaits, held, Sockets, TasksConsistent
  <2>3. /\ at = 1 => t = "receiver"
        /\ at = 3 => t = "router"
        /\ at = 4 => t = "recovery"
        /\ at = 5 => t = "lag"
        /\ at = 6 => t = "health"
        /\ at = 9 => t = "admin"
        /\ at \notin {2, 7, 8}
    BY <1>1 DEF Shutdown
  <2> QED BY <1>1, <2>1, <2>2, <2>3, DoneKeeps
<1> QED BY <1>2, <1>3

\* The steps of run, before and in its shutdown, keep the invariant.
LEMMA RunKeeps ==
  ASSUME LifecycleInv, LifecycleTypeOK', main # "build", Main PROVE LifecycleInv'
<1> USE DEF LifecycleInv
<1>1. CASE AwaitRunning
  <2> USE DEF config, held, routerVars
  <2>1. /\ main = "await" /\ main' = "serving" /\ running /\ task["receiver"] = "off"
        /\ \A t \in Tasks : task'[t] = IF t = "receiver" THEN "running" ELSE task[t]
    BY <1>1 DEF AwaitRunning, TasksConsistent, LifecycleTypeOK
  <2>2. UNCHANGED <<config, at, outcome, held, routerVars, polling, err>>
    BY <1>1 DEF AwaitRunning
  <2>3. BuiltSoFar' /\ HeldUntilClosed' /\ EndedWhenPast'
    BY <2>1, <2>2 DEF BuiltSoFar, HeldUntilClosed, EndedWhenPast, Until, Past, Allowed
  <2>4. TasksConsistent'
    BY <2>1, <2>2 DEF TasksConsistent, Tasks
  <2>5. Reported'
    BY <2>1, <2>2 DEF Reported, NoFailureHidden
  <2> QED BY <2>1, <2>2, <2>3, <2>4, <2>5
<1>2. CASE BeginShutdown
  <2> USE DEF config, held, routerVars
  <2>1. /\ main \in {"await", "serving"} /\ main' = "shutdown" /\ at' = 1
        /\ UNCHANGED <<config, outcome, held, routerVars, polling, err, task>>
    BY <1>2 DEF BeginShutdown
  <2>2. BuiltSoFar' /\ HeldUntilClosed' /\ EndedWhenPast'
    BY <2>1 DEF BuiltSoFar, HeldUntilClosed, EndedWhenPast, Until, Past, Allowed
  <2>3. TasksConsistent' /\ Reported'
    BY <2>1 DEF TasksConsistent, Reported, NoFailureHidden
  <2> QED BY <2>1, <2>2, <2>3
<1>3. ASSUME NEW t \in Tasks, StopNothing(t) \/ StopCancels(t) \/ StopWaits(t) PROVE LifecycleInv'
  BY <1>3, StopKeeps
<1>4. CASE RouterCloseBegins
  <2>1. main = "shutdown" /\ at = 2
    BY <1>4, DoingAt, ShutdownOrder DEF RouterCloseBegins
  <2> QED BY <1>4, <2>1, HandlersKeep
          DEF RouterCloseBegins, config, mainVars, held, taskVars, Until, TasksConsistent, LifecycleTypeOK
<1>5. CASE HandlersClosed
  <2>1. ~Until(1)
    BY <1>5 DEF HandlersClosed, HeldUntilClosed
  <2> QED BY <1>5, <2>1, HandlersKeep
          DEF HandlersClosed, config, held, taskVars, TasksConsistent, LifecycleTypeOK
<1>6. CASE RouterCloseEnds
  <2>1. at = 2 /\ Doing("close", "router")
    BY <1>6, DoingAt, ShutdownOrder DEF RouterCloseEnds
  <2> QED BY <1>6, <2>1, DoneKeeps DEF RouterCloseEnds, held
<1>7. ASSUME NEW s \in Sinks, CloseSubscriber(s) PROVE LifecycleInv'
  <2> USE DEF config, mainVars, taskVars, routerVars
  <2>1. ~Until(1) /\ ~Past(2)
    BY <1>7 DEF CloseSubscriber, HeldUntilClosed, EndedWhenPast
  <2>2. UNCHANGED <<config, main, at, outcome, built, open, task, err, routerVars, polling>>
    BY <1>7 DEF CloseSubscriber
  <2>3. BuiltSoFar' /\ HeldUntilClosed'
    BY <2>1, <2>2 DEF BuiltSoFar, HeldUntilClosed, Until
  <2>4. EndedWhenPast'
    BY <2>1, <2>2 DEF EndedWhenPast, Past, Stopped, LifecycleTypeOK
  <2>5. TasksConsistent' /\ Reported'
    BY <2>2 DEF TasksConsistent, Reported, NoFailureHidden
  <2> QED BY <2>2, <2>3, <2>4, <2>5
<1>8. CASE CloseSinks
  <2>1. at = 7 /\ Doing("close", "sinks")
    BY <1>8, DoingAt, ShutdownOrder DEF CloseSinks
  <2> QED BY <1>8, <2>1, DoneKeeps DEF CloseSinks
<1>9. CASE CloseBus
  <2>1. at = 8 /\ Doing("close", "bus")
    BY <1>9, DoingAt, ShutdownOrder DEF CloseBus
  <2> QED BY <1>9, <2>1, DoneKeeps DEF CloseBus
<1>10. CASE Return
  <2> USE DEF config, held, taskVars, routerVars
  <2>1. /\ main = "shutdown" /\ at = 10 /\ main' = "exited"
        /\ UNCHANGED <<config, held, task, err, routerVars, polling>>
        /\ outcome' = "nil" => err = {}
    BY <1>10 DEF Return, Shutdown, LifecycleTypeOK
  <2>2. BuiltSoFar' /\ HeldUntilClosed'
    BY <2>1 DEF BuiltSoFar, HeldUntilClosed, Until
  <2>3. EndedWhenPast'
    BY <2>1 DEF EndedWhenPast, Past, Stopped, Drained
  <2>4. TasksConsistent' /\ Reported'
    BY <2>1 DEF TasksConsistent, Reported, NoFailureHidden
  <2> QED BY <2>1, <2>2, <2>3, <2>4
<1> QED BY <1>1, <1>2, <1>3, <1>4, <1>5, <1>6, <1>7, <1>8, <1>9, <1>10
        DEF Main, SeeSignal, SeeFailure, ReserveStore, StartServer, Connect, EnsureStream, ResolveIngress,
            Refuse, BuildSink, Bind, BuildRecovery, ListenAdmin, ListenWebhook, StartTasks, Hold, Building

\* Every step keeps the invariant.
LEMMA NextKeeps == LifecycleInv /\ [Next]_vars => LifecycleInv'
<1> SUFFICES ASSUME LifecycleInv, [Next]_vars PROVE LifecycleInv'
  OBVIOUS
<1>0. LifecycleTypeOK'
  BY NextType
<1> USE <1>0 DEF LifecycleInv, config, mainVars, held, taskVars, routerVars
<1>1. CASE Main
  BY <1>1, NewServiceKeeps, RunKeeps
<1>2. CASE BuildFails
  BY <1>2, AbortKeeps
<1>3. CASE Signal \/ UNCHANGED vars
  BY <1>3, HandlersKeep DEF Signal, vars, TasksConsistent, LifecycleTypeOK
<1>4. ASSUME NEW t \in Servers, ServeFails(t) PROVE LifecycleInv'
  BY <1>4, TaskKeeps DEF ServeFails, Fails, Servers, Tasks
<1>5. ASSUME NEW t \in Tasks \ {"router"}, TaskStops(t) PROVE LifecycleInv'
  BY <1>5, TaskKeeps DEF TaskStops, Ends, Fails
<1>6. ASSUME NEW t \in {"lag", "health"}, TaskFinishes(t) PROVE LifecycleInv'
  <2>1. ~polling /\ built' = built \ SocketOf(t)
    BY <1>6, SocketsOf DEF TaskFinishes, TasksConsistent, Tasks, Servers
  <2> QED BY <1>6, <2>1, TaskKeeps DEF TaskFinishes, Ends, Tasks
<1>7. ASSUME NEW t \in Tasks, Report(t) PROVE LifecycleInv'
  <2>1. (t = "lag" => ~polling) /\ built' = built \ SocketOf(t)
    BY <1>7, SocketsOf DEF Report, TasksConsistent, Tasks, Servers
  <2> QED BY <1>7, <2>1, TaskKeeps DEF Report
<1>8. ASSUME NEW s \in Sinks, RouterSubscribes(s) PROVE LifecycleInv'
  <2>1. main # "build"
    BY <1>8 DEF RouterSubscribes, BuiltSoFar, Tasks
  <2>2. CASE s \in consumers
    BY <1>8, <2>1, <2>2, HandlersKeep DEF RouterSubscribes, TasksConsistent
  <2>3. CASE s \notin consumers
    <3>1. built' = built \ SocketOf("router")
      BY <1>8, SocketsOf DEF RouterSubscribes, Tasks, Servers
    <3> QED BY <1>8, <2>3, <3>1, TaskKeeps DEF RouterSubscribes, Fails, Tasks
  <2> QED BY <2>2, <2>3
<1>9. ASSUME NEW s \in Sinks, ProcessBegins(s) \/ ProcessEnds(s) PROVE LifecycleInv'
  <2>1. Past(2) => busy' \subseteq busy
    BY <1>9 DEF ProcessBegins, ProcessEnds, EndedWhenPast
  <2> QED BY <1>9, <2>1, HandlersKeep DEF ProcessBegins, ProcessEnds, TasksConsistent, LifecycleTypeOK
<1>10. CASE RouterRuns
  <2>1. main # "build"
    BY <1>10 DEF RouterRuns, BuiltSoFar, Tasks
  <2> QED BY <1>10, <2>1, HandlersKeep DEF RouterRuns, TasksConsistent
<1>11. CASE RouterReturns
  <2>1. built' = built \ SocketOf("router")
    BY <1>11, SocketsOf DEF RouterReturns, Tasks, Servers
  <2> QED BY <1>11, <2>1, TaskKeeps DEF RouterReturns, Ends, Tasks
<1>12. CASE PollBegins \/ PollEnds
  BY <1>12, HandlersKeep DEF PollBegins, PollEnds, TasksConsistent, LifecycleTypeOK
<1> QED BY <1>1, <1>2, <1>3, <1>4, <1>5, <1>6, <1>7, <1>8, <1>9, <1>10, <1>11, <1>12 DEF Next

-----------------------------------------------------------------------------
(* Theorems.                                                               *)

\* What is held and what has ended fits the position of newService and run,
\* in every interleaving with the tasks.
THEOREM LifecycleIsConsistent == Spec => []LifecycleInv
<1>1. Init => LifecycleInv
  <2> SUFFICES ASSUME Init PROVE LifecycleInv
    OBVIOUS
  <2>1. LifecycleTypeOK
    <3>1. {stopErr, signal, closing, running, polling} \subseteq BOOLEAN
      BY Zenon DEF Init
    <3>2. failures \in Seq(Tasks) /\ Len(failures) <= Room /\ at \in 1..(Len(Build) + 1)
      BY DEF Init, Room, Build
    <3> QED BY <3>1, <3>2 DEF Init, LifecycleTypeOK, Tasks
  <2>2. BuiltSoFar /\ HeldUntilClosed /\ EndedWhenPast
    BY DEF Init, BuiltSoFar, HeldUntilClosed, EndedWhenPast, Until, Past
  <2>3. TasksConsistent /\ Reported
    BY DEF Init, TasksConsistent, Reported, NoFailureHidden, Tasks, None
  <2> QED BY <2>1, <2>2, <2>3 DEF Init, LifecycleInv
<1> QED BY <1>1, NextKeeps, PTL DEF Spec

\* The receiver serves only while every sink is subscribed and bus and
\* consumers are open.
THEOREM ReceiverNeedsSinks == Spec => []AcceptsOnlyDelivered
<1>1. LifecycleInv => AcceptsOnlyDelivered
  <2> SUFFICES ASSUME LifecycleInv, task["receiver"] = "running" PROVE AcceptsOnlyDelivered
    BY DEF AcceptsOnlyDelivered
  <2>1. Until(1) /\ subscribed = Sinks
    BY DEF LifecycleInv, LifecycleTypeOK, BuiltSoFar, EndedWhenPast, TasksConsistent, Until, Past, Stopped, Tasks
  <2>2. Until(8)
    BY <2>1 DEF LifecycleInv, LifecycleTypeOK, Until
  <2> QED BY <2>1, <2>2 DEF LifecycleInv, HeldUntilClosed, Allowed, AcceptsOnlyDelivered
<1> QED BY <1>1, LifecycleIsConsistent, PTL

\* No Process call that keeps the close timeouts, and no lag sample, finds its
\* sink or the bus closed.
THEOREM CloseComesLast == Spec => []NothingUsedAfterClose
<1>1. LifecycleInv => NothingUsedAfterClose
  <2> SUFFICES ASSUME LifecycleInv PROVE NothingUsedAfterClose
    OBVIOUS
  <2>1. ASSUME ~Drained PROVE Until(2)
    BY <2>1 DEF LifecycleInv, LifecycleTypeOK, BuiltSoFar, EndedWhenPast, Until, Past, Drained
  <2>2. ASSUME polling PROVE Until(5)
    BY <2>2 DEF LifecycleInv, LifecycleTypeOK, BuiltSoFar, EndedWhenPast, TasksConsistent, Until, Past, Stopped, Tasks
  <2> QED BY <2>1, <2>2 DEF LifecycleInv, LifecycleTypeOK, HeldUntilClosed, Until, NothingUsedAfterClose
<1> QED BY <1>1, LifecycleIsConsistent, PTL

\* However newService failed or run returned, nothing is left open or running.
THEOREM ExitReleasesAll == Spec => []EverythingReleased
<1>1. LifecycleInv => EverythingReleased
  <2> SUFFICES ASSUME LifecycleInv, main = "exited"
               PROVE  /\ built \union open \union consumers = {}
                      /\ \A t \in Tasks : task[t] \in {"off", "done"}
    BY DEF EverythingReleased
  <2>1. \A t \in Tasks : task[t] \in {"off", "done"}
    BY ExitedIsQuiet DEF Stopped
  <2>2. built \union open \union consumers = {}
    BY DEF LifecycleInv, LifecycleTypeOK, EndedWhenPast, Past, Bus, Sockets
  <2> QED BY <2>1, <2>2
<1> QED BY <1>1, LifecycleIsConsistent, PTL

\* run returns nil only if no component has failed.
THEOREM FailuresAreReported == Spec => []NoFailureHidden
<1>1. LifecycleInv => NoFailureHidden
  BY DEF LifecycleInv, Reported
<1> QED BY <1>1, LifecycleIsConsistent, PTL
=============================================================================
