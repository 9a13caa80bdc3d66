--------------------------- MODULE BigQueryStream ---------------------------
(***************************************************************************)
(* The BigQuery Writer's open function in detail: managedOpener gives the  *)
(* stream a context of its own and starts a goroutine that cancels it if   *)
(* the context of the write ends during the set-up.  LazyOpen supplies     *)
(* everything around it; its OpenSucceeds and OpenFails become the steps   *)
(* of NewManagedStream and of that goroutine.                              *)
(***************************************************************************)
EXTENDS LazyOpen

VARIABLES ctxDone,    \* per attempt: the context of the write has ended
          setupDone,  \* per attempt: setupDone is closed
          watcher,    \* per attempt: where the goroutine is
          abandoned,  \* per attempt: abandoned is set
          cancelled   \* per attempt: the stream's context is cancelled

setup == <<ctxDone, setupDone, watcher, abandoned, cancelled>>
allVars == <<vars, setup>>

StreamInit ==
    /\ Init
    /\ ctxDone = [n \in Attempts |-> FALSE]
    /\ setupDone = [n \in Attempts |-> FALSE]
    /\ watcher = [n \in Attempts |-> "off"]
    /\ abandoned = [n \in Attempts |-> FALSE]
    /\ cancelled = [n \in Attempts |-> FALSE]

\* managedOpener is entered: the goroutine starts.
OpenerStarts(c) ==
    /\ DoAttempt(c)
    /\ watcher' = [watcher EXCEPT ![opens'] = "starting"]
    /\ UNCHANGED <<ctxDone, setupDone, abandoned, cancelled>>

\* A channel of the select becomes ready: a goroutine parked there is woken
\* for that channel and no other.
Wake(n, state) ==
    watcher' = [watcher EXCEPT ![n] = IF @ = "parked" THEN state ELSE @]

\* The write that runs the attempt meets its deadline or, once it returned,
\* its handler cancels the context.
ContextEnds(n) ==
    /\ n <= opens
    /\ ~ctxDone[n]
    /\ ctxDone' = [ctxDone EXCEPT ![n] = TRUE]
    /\ Wake(n, "woken")
    /\ UNCHANGED <<vars, setupDone, abandoned, cancelled>>

\* The goroutine reaches its select: it parks, or takes a channel that is
\* ready already, either one if both are.
WatcherSelects(n) ==
    /\ watcher[n] = "starting"
    /\ watcher' = [watcher EXCEPT ![n] =
           CASE ~ctxDone[n] /\ ~setupDone[n] -> "parked"
             [] ctxDone[n] /\ ~setupDone[n] -> "woken"
             [] OTHER -> "gone"]
    /\ UNCHANGED <<vars, ctxDone, setupDone, abandoned, cancelled>>

WatcherSelectsContext(n) ==
    /\ watcher[n] = "starting"
    /\ ctxDone[n] /\ setupDone[n]
    /\ watcher' = [watcher EXCEPT ![n] = "woken"]
    /\ UNCHANGED <<vars, ctxDone, setupDone, abandoned, cancelled>>

\* Mutant of WatcherCancels: nobody cancels a set-up in progress.
WatcherIdles(n) ==
    /\ watcher[n] = "woken"
    /\ watcher' = [watcher EXCEPT ![n] = "gone"]
    /\ UNCHANGED <<vars, ctxDone, setupDone, abandoned, cancelled>>

\* Woken by the context, the goroutine cancels the stream's.
WatcherCancels(n) ==
    /\ watcher[n] = "woken"
    /\ watcher' = [watcher EXCEPT ![n] = "gone"]
    /\ abandoned' = [abandoned EXCEPT ![n] = TRUE]
    /\ cancelled' = [cancelled EXCEPT ![n] = TRUE]
    /\ UNCHANGED <<vars, ctxDone, setupDone>>

\* NewManagedStream returns a stream, even if its context ends just then.
SetupReturns(c) ==
    /\ pc[c] = "opening"
    /\ ~setupDone[own[c]]
    /\ setupDone' = [setupDone EXCEPT ![own[c]] = TRUE]
    /\ live' = live \union {own[c]}
    /\ Wake(own[c], "gone")
    /\ UNCHANGED <<pc, own, waits, flight, closed, cpc, closings>>
    /\ UNCHANGED <<ctxDone, abandoned, cancelled>>

\* NewManagedStream fails: the service refuses, or its context was cancelled.
SetupFails(c) ==
    /\ pc[c] = "opening"
    /\ ~setupDone[own[c]]
    /\ OpenFails(c)
    /\ setupDone' = [setupDone EXCEPT ![own[c]] = TRUE]
    /\ cancelled' = [cancelled EXCEPT ![own[c]] = TRUE]
    /\ Wake(own[c], "gone")
    /\ UNCHANGED <<ctxDone, abandoned>>

\* Mutant of SetupAbandoned: the stream is dropped without closing it.
SetupForgotten(c) ==
    /\ pc[c] = "opening"
    /\ setupDone[own[c]]
    /\ abandoned[own[c]]
    /\ OpenFails(c)
    /\ UNCHANGED setup

\* A stream whose set-up was abandoned is closed and not returned.
SetupAbandoned(c) ==
    /\ pc[c] = "opening"
    /\ setupDone[own[c]]
    /\ abandoned[own[c]]
    /\ live' = live \ {own[c]}
    /\ call' = None
    /\ Goto(c, "idle")
    /\ UNCHANGED <<own, waits, opens, ready, value, closed, cpc, closings, setup>>

SetupKept(c) ==
    /\ pc[c] = "opening"
    /\ setupDone[own[c]]
    /\ ~abandoned[own[c]]
    /\ Goto(c, "opened")
    /\ UNCHANGED <<own, waits, flight, closed, cpc, resource, setup>>

\* managedAppender.Close, reached through CheckClosed or CloseEnds, also
\* cancels the stream's context.
AppenderCloses(step, n) ==
    /\ step
    /\ cancelled' = IF live' # live THEN [cancelled EXCEPT ![n] = TRUE] ELSE cancelled
    /\ UNCHANGED <<ctxDone, setupDone, watcher, abandoned>>

-----------------------------------------------------------------------------
Caller(c) ==
    \/ Wait(c) /\ UNCHANGED setup
    \/ OpenerStarts(c)
    \/ SetupReturns(c) \/ SetupFails(c) \/ SetupAbandoned(c) \/ SetupKept(c)
    \/ AppenderCloses(CheckClosed(c), own[c])
    \/ AttemptEnds(c) /\ UNCHANGED setup

Closer(k) ==
    \/ (CloseBegins(k) \/ Peek(k) \/ PeekWoken(k)) /\ UNCHANGED setup
    \/ AppenderCloses(CloseEnds(k), value)

StreamNext ==
    \/ \E c \in Callers : Caller(c)
    \/ \E k \in Closers : Closer(k)
    \/ \E n \in Attempts : \/ ContextEnds(n)
                           \/ WatcherSelects(n) \/ WatcherSelectsContext(n)
                           \/ WatcherCancels(n)

StreamSpec == StreamInit /\ [][StreamNext]_allVars

\* Goroutines run and deadlines end.  A service that cannot be reached is
\* allowed: NewManagedStream returns for certain only once it is cancelled.
StreamFairness ==
    /\ \A n \in Attempts :
          /\ WF_allVars(ContextEnds(n))
          /\ WF_allVars(WatcherSelects(n))
          /\ WF_allVars(WatcherCancels(n))
    /\ \A c \in Callers :
          /\ WF_allVars(SetupFails(c) /\ cancelled[own[c]])
          /\ WF_allVars(SetupAbandoned(c) \/ SetupKept(c))
          /\ WF_allVars(AppenderCloses(CheckClosed(c), own[c]))
          /\ WF_allVars(AttemptEnds(c) /\ UNCHANGED setup)
    /\ \A k \in Closers :
          /\ WF_allVars((Peek(k) \/ PeekWoken(k)) /\ UNCHANGED setup)
          /\ WF_allVars(AppenderCloses(CloseEnds(k), value))

StreamFairSpec == StreamSpec /\ StreamFairness

-----------------------------------------------------------------------------
(* Properties.                                                             *)

\* A stream counts as opened when managedOpener returns it.
Lazy == INSTANCE LazyOpen
    WITH live <- live \ {own[c] : c \in {d \in Callers : pc[d] = "opening"}}

\* The managed stream is a lazily opened resource: whatever the goroutine, the
\* write's context and NewManagedStream do, in any order, opening it takes the
\* steps of LazyOpen, so no stream is leaked or closed twice.
ImplementsLazyOpen == Lazy!Spec

\* An unreachable BigQuery wedges neither the writes nor the shutdown: every
\* attempt and every Close ends, although NewManagedStream retries for ever.
NeverWedged ==
    /\ \A c \in Callers : pc[c] = "opening" ~> pc[c] # "opening"
    /\ \A k \in Closers : cpc[k] # "idle" ~> cpc[k] = "done"

\* The comment on managedOpener: the stream's context "is cancelled only if
\* the per-write context ends while the stream is still being set up; once the
\* stream is open, its lifetime is bound to base alone".
StreamOutlivesWrite == \A n \in live : ready /\ value = n => ~cancelled[n]
=============================================================================
